---- MODULE Spec2Model ----
(***************************************************************************)
(* Multi-touch attribution analyzer                                        *)
(* (skills/campaign-analytics/scripts/attribution_analyzer.py).            *)
(*                                                                         *)
(* Numbers.  The program computes in Python floats.  The model computes    *)
(* in exact rational arithmetic: a number is a pair <<n, d>> in lowest     *)
(* terms with d > 0.  IEEE rounding, underflow and overflow are outside    *)
(* the model.  math.exp(-ln(2)/h * d) is the real number 2^(-d/h); the     *)
(* modelled inputs keep d/h an integer, so that it is a rational.          *)
(*                                                                         *)
(* Timestamps.  A timestamp string is a record [fmt, day]: the format it   *)
(* is written in and the calendar day it names (day 0 is an arbitrary      *)
(* epoch; the time of day of the modelled strings is 00:00:00).  An        *)
(* instant is a number of days.                                            *)
(*                                                                         *)
(* Journeys are Python dicts: a record whose DOMAIN holds the keys that    *)
(* are present.                                                            *)
(***************************************************************************)
EXTENDS Integers, Sequences, FiniteSets, TLC

(***************************************************************************)
(* Bounds of the checked inputs.                                           *)
(***************************************************************************)
\* longest touchpoint array of the single-journey inputs
MaxTouch == 3
\* longest journey list of the batch inputs
MaxJourneys == 2

\* the channel names, in the order of Python's str comparison
Alphabet == <<"A", "B", "C">>
Channels == {Alphabet[i] : i \in 1..Len(Alphabet)}
Rank(channel) == CHOOSE i \in 1..Len(Alphabet) : Alphabet[i] = channel
\* calendar days of the modelled timestamps: multiples of every half-life
Days == {0, 4, 8, 12}
\* values of --half-life
HalfLives == {-4, 0, 1, 2, 4}
PositiveHalfLives == {h \in HalfLives : h > 0}

(***************************************************************************)
(* Exact rational arithmetic (the program's float arithmetic).             *)
(***************************************************************************)
Abs(x) == IF x < 0 THEN -x ELSE x

RECURSIVE GCD(_, _)
GCD(a, b) == IF b = 0 THEN a ELSE GCD(b, a % b)

Rat(n, d) ==
    LET g == GCD(Abs(n), Abs(d))
        s == IF d < 0 THEN -1 ELSE 1
    IN  <<(s * n) \div g, (s * d) \div g>>

Num(n) == <<n, 1>>
Zero == Num(0)
One == Num(1)

RAdd(a, b) ==
    LET g == GCD(a[2], b[2])
    IN  Rat(a[1] * (b[2] \div g) + b[1] * (a[2] \div g), a[2] * (b[2] \div g))
RMul(a, b) ==
    LET g1 == GCD(Abs(a[1]), b[2])
        g2 == GCD(Abs(b[1]), a[2])
    IN  Rat((a[1] \div g1) * (b[1] \div g2), (a[2] \div g2) * (b[2] \div g1))
\* a / b for b # 0
RDiv(a, b) == RMul(a, Rat(b[2], b[1]))
RLess(a, b) == a[1] * b[2] < b[1] * a[2]
RLeq(a, b) == a[1] * b[2] <= b[1] * a[2]

RECURSIVE RSumSeq(_)
RSumSeq(s) == IF s = <<>> THEN Zero ELSE RAdd(Head(s), RSumSeq(Tail(s)))

\* fault seeded for C23: round(v, 1)
Round1(v) ==
    LET x == 10 * v[1]
        q == x \div v[2]
        r == x - q * v[2]
        c == IF 2 * r < v[2] THEN q
             ELSE IF 2 * r > v[2] THEN q + 1
             ELSE IF q % 2 = 0 THEN q ELSE q + 1
    IN  Rat(c, 10)

\* round(v, 2): the nearest multiple of 1/100, a tie going to the even one
Round2(v) ==
    LET x == 100 * v[1]
        q == x \div v[2]
        r == x - q * v[2]
        c == IF 2 * r < v[2] THEN q
             ELSE IF 2 * r > v[2] THEN q + 1
             ELSE IF q % 2 = 0 THEN q ELSE q + 1
    IN  Rat(c, 100)

(***************************************************************************)
(* MODELS, safe_divide, parse_timestamp                                    *)
(***************************************************************************)
MODELS == <<"first-touch", "last-touch", "linear", "time-decay", "position-based">>

\* fault seeded for C17: a zero denominator gives 0.0 whatever default is
safe_divide_to_zero(numerator, denominator, default) ==
    IF denominator = Zero THEN Zero ELSE RDiv(numerator, denominator)

safe_divide(numerator, denominator, default) ==
    IF denominator = Zero THEN default ELSE RDiv(numerator, denominator)

\* the three formats strptime is tried with, in order
Formats == <<"%Y-%m-%dT%H:%M:%S", "%Y-%m-%d %H:%M:%S", "%Y-%m-%d">>
FormatSet == {Formats[i] : i \in 1..Len(Formats)}

\* fault seeded for C14: a string no format matches is taken for the epoch
parses_anything(ts) == TRUE

\* whether some format matches ts: otherwise parse_timestamp raises
Parses(ts) == \E i \in 1..Len(Formats) : ts.fmt = Formats[i]
\* the instant of a string that parses, in days
parse_timestamp(ts) == ts.day
\* ValueError(f"Cannot parse timestamp: {ts}")
ParseError(ts) == [type |-> "ValueError", what |-> "Cannot parse timestamp", value |-> ts]

(***************************************************************************)
(* Journeys, touchpoints, ledgers                                          *)
(***************************************************************************)
\* journey.get("converted", False)
Converted(journey) == IF "converted" \in DOMAIN journey THEN journey.converted ELSE FALSE
\* journey.get("touchpoints", [])
Touchpoints(journey) == IF "touchpoints" \in DOMAIN journey THEN journey.touchpoints ELSE <<>>
\* journey.get("revenue", 1.0)
Revenue(journey) == IF "revenue" \in DOMAIN journey THEN Num(journey.revenue) ELSE One

\* what a function call ends with: a returned ledger, or a raised exception
Return(credits) == [ok |-> TRUE, credits |-> credits]
Raise(error) == [ok |-> FALSE, error |-> error]

\* credits: Dict[str, float] = {}
EmptyLedger == [c \in {} |-> Zero]
\* credits.get(channel, 0.0)
Get(credits, channel) == IF channel \in DOMAIN credits THEN credits[channel] ELSE Zero
\* fault seeded for C25: credits.setdefault(channel, amount), a channel that holds
\* credit keeps it and the amount is lost
credit_setdefault(credits, channel, amount) ==
    [c \in DOMAIN credits \cup {channel} |->
        IF c \in DOMAIN credits THEN credits[c] ELSE amount]

\* fault seeded for C10: the amount replaces what the channel holds
credit_overwrites(credits, channel, amount) ==
    [c \in DOMAIN credits \cup {channel} |-> IF c = channel THEN amount ELSE credits[c]]

\* credits[channel] = credits.get(channel, 0.0) + amount
Credit(credits, channel, amount) ==
    [c \in DOMAIN credits \cup {channel} |->
        IF c = channel THEN RAdd(Get(credits, channel), amount) ELSE credits[c]]

\* sorted(touchpoints, key=lambda t: parse_timestamp(t["timestamp"])) computes the
\* key of every element in array order: the first string that does not parse raises
Unparsed(touchpoints) == {i \in 1..Len(touchpoints) : ~Parses(touchpoints[i].timestamp)}
FirstUnparsed(touchpoints) ==
    touchpoints[CHOOSE i \in Unparsed(touchpoints) : \A k \in Unparsed(touchpoints) : i <= k]

\* fault seeded for C24: x is put before the elements of its own instant (a sort that
\* is not stable)
InsertBeforeTies(s, x) ==
    LET n == Cardinality({i \in 1..Len(s) :
                 parse_timestamp(s[i].timestamp) < parse_timestamp(x.timestamp)})
    IN  SubSeq(s, 1, n) \o <<x>> \o SubSeq(s, n + 1, Len(s))

\* x put behind every element of the sorted s that is not later than x
InsertByTime(s, x) ==
    LET n == Cardinality({i \in 1..Len(s) :
                 parse_timestamp(s[i].timestamp) <= parse_timestamp(x.timestamp)})
    IN  SubSeq(s, 1, n) \o <<x>> \o SubSeq(s, n + 1, Len(s))

\* the stable ascending sort of touchpoints that all parse
RECURSIVE sorted(_)
sorted(touchpoints) ==
    IF touchpoints = <<>> THEN <<>>
    ELSE InsertByTime(sorted(SubSeq(touchpoints, 1, Len(touchpoints) - 1)),
                      touchpoints[Len(touchpoints)])

\* fault seeded for C27: every amount is rounded before it is added,
\* credits[channel] = credits.get(channel, 0.0) + round(share, 2)
CreditEachRounded(credits, tps, amounts) ==
    LET after[i \in 0..Len(tps)] ==
            IF i = 0 THEN credits
            ELSE Credit(after[i - 1], tps[i].channel, Round2(amounts[i]))
    IN  after[Len(tps)]

\* for i, tp in enumerate(tps): credits[tp["channel"]] = credits.get(...) + amounts[i]
CreditEach(credits, tps, amounts) ==
    LET after[i \in 0..Len(tps)] ==
            IF i = 0 THEN credits
            ELSE Credit(after[i - 1], tps[i].channel, amounts[i])
    IN  after[Len(tps)]

\* the two tests every model starts a journey with: "continue" when either fails
Eligible(journey) == Converted(journey) /\ Touchpoints(journey) # <<>>

(***************************************************************************)
(* first_touch_attribution, last_touch_attribution: one journey            *)
(***************************************************************************)
\* fault seeded for C2: the array is read in the order it is given
first_touch_unsorted(credits, journey) ==
    IF ~Eligible(journey) THEN Return(credits)
    ELSE Return(Credit(credits, Touchpoints(journey)[1].channel, Revenue(journey)))

\* fault seeded for C28: the touchpoints are sorted, and their timestamps parsed,
\* before the journey is tested for its conversion
first_touch_parsing_first(credits, journey) ==
    IF Unparsed(Touchpoints(journey)) # {}
    THEN Raise(ParseError(FirstUnparsed(Touchpoints(journey)).timestamp))
    ELSE IF ~Eligible(journey) THEN Return(credits)
    ELSE Return(Credit(credits, sorted(Touchpoints(journey))[1].channel, Revenue(journey)))

first_touch_journey(credits, journey) ==
    IF ~Converted(journey) THEN Return(credits)
    ELSE IF Touchpoints(journey) = <<>> THEN Return(credits)
    ELSE IF Unparsed(Touchpoints(journey)) # {}
         THEN Raise(ParseError(FirstUnparsed(Touchpoints(journey)).timestamp))
    ELSE LET sorted_tp == sorted(Touchpoints(journey))
             channel == sorted_tp[1].channel
         IN  Return(Credit(credits, channel, Revenue(journey)))

\* fault seeded for C3: the array is read in the order it is given
last_touch_unsorted(credits, journey) ==
    IF ~Eligible(journey) THEN Return(credits)
    ELSE Return(Credit(credits, Touchpoints(journey)[Len(Touchpoints(journey))].channel,
                       Revenue(journey)))

last_touch_journey(credits, journey) ==
    IF ~Converted(journey) THEN Return(credits)
    ELSE IF Touchpoints(journey) = <<>> THEN Return(credits)
    ELSE IF Unparsed(Touchpoints(journey)) # {}
         THEN Raise(ParseError(FirstUnparsed(Touchpoints(journey)).timestamp))
    ELSE LET sorted_tp == sorted(Touchpoints(journey))
             channel == sorted_tp[Len(sorted_tp)].channel
         IN  Return(Credit(credits, channel, Revenue(journey)))

(***************************************************************************)
(* linear_attribution: one journey; no timestamp is parsed                 *)
(***************************************************************************)
\* fault seeded for C9: the converted flag is not tested
linear_unfiltered(credits, journey) ==
    IF Touchpoints(journey) = <<>> THEN Return(credits)
    ELSE LET touchpoints == Touchpoints(journey)
             share == safe_divide(Revenue(journey), Num(Len(touchpoints)), Zero)
         IN  Return(CreditEach(credits, touchpoints, [i \in 1..Len(touchpoints) |-> share]))

\* fault seeded for C4: the revenue is split over the distinct channels
linear_per_channel(credits, journey) ==
    IF ~Eligible(journey) THEN Return(credits)
    ELSE LET touchpoints == Touchpoints(journey)
             distinct == {touchpoints[i].channel : i \in 1..Len(touchpoints)}
             share == safe_divide(Revenue(journey), Num(Cardinality(distinct)), Zero)
         IN  Return(CreditEach(credits, touchpoints, [i \in 1..Len(touchpoints) |-> share]))

linear_journey(credits, journey) ==
    IF ~Converted(journey) THEN Return(credits)
    ELSE IF Touchpoints(journey) = <<>> THEN Return(credits)
    ELSE LET touchpoints == Touchpoints(journey)
             share == safe_divide(Revenue(journey), Num(Len(touchpoints)), Zero)
         IN  Return(CreditEach(credits, touchpoints, [i \in 1..Len(touchpoints) |-> share]))

(***************************************************************************)
(* time_decay_attribution: one journey                                     *)
(***************************************************************************)
\* fault seeded for C26: math.expm1 written for math.exp, every weight is 1 too small
exp_decay_minus_one(half_life_days, days_before) ==
    LET k == Abs(days_before) \div Abs(half_life_days)
    IN  IF (days_before >= 0) = (half_life_days > 0)
        THEN RAdd(Rat(1, 2 ^ k), Num(-1)) ELSE RAdd(Num(2 ^ k), Num(-1))

\* fault seeded for C7: the sign of the exponent is lost, math.exp(decay_rate * days_before)
exp_growth(half_life_days, days_before) ==
    LET k == Abs(days_before) \div Abs(half_life_days)
    IN  IF (days_before >= 0) = (half_life_days > 0) THEN Num(2 ^ k) ELSE Rat(1, 2 ^ k)

\* fault seeded for C8: math.log(2) is left out, decay_rate = 1 / half_life_days, so
\* that a half-life divides the weight by e (3 stands for e)
exp_decay_by_e(half_life_days, days_before) ==
    LET k == Abs(days_before) \div Abs(half_life_days)
    IN  IF (days_before >= 0) = (half_life_days > 0) THEN Rat(1, 3 ^ k) ELSE Num(3 ^ k)

\* math.exp(-decay_rate * days_before) with decay_rate = math.log(2) / half_life_days:
\* 2^(-days_before / half_life_days), half_life_days # 0 dividing days_before
exp_decay(half_life_days, days_before) ==
    LET k == Abs(days_before) \div Abs(half_life_days)
    IN  IF (days_before >= 0) = (half_life_days > 0) THEN Rat(1, 2 ^ k) ELSE Num(2 ^ k)

\* fault seeded for C6: the days are counted forward from the first touchpoint
time_decay_weights_from_first(half_life_days, sorted_tp) ==
    LET first_time == parse_timestamp(sorted_tp[1].timestamp)
    IN  [i \in 1..Len(sorted_tp) |->
            exp_decay(half_life_days, parse_timestamp(sorted_tp[i].timestamp) - first_time)]

\* the raw weights of the sorted touchpoints, measured back from the last of them
time_decay_weights(half_life_days, sorted_tp) ==
    LET conversion_time == parse_timestamp(sorted_tp[Len(sorted_tp)].timestamp)
    IN  [i \in 1..Len(sorted_tp) |->
            LET tp_time == parse_timestamp(sorted_tp[i].timestamp)
                days_before == conversion_time - tp_time
            IN  exp_decay(half_life_days, days_before)]

\* fault seeded for C1: the weights are not normalised by their sum
time_decay_shares_raw(weights, revenue) ==
    [i \in 1..Len(weights) |-> RMul(weights[i], revenue)]

\* share = safe_divide(weights[i], total_weight) * revenue
time_decay_shares(weights, revenue) ==
    LET total_weight == RSumSeq(weights)
    IN  [i \in 1..Len(weights) |-> RMul(safe_divide(weights[i], total_weight, Zero), revenue)]

time_decay_journey(half_life_days, credits, journey) ==
    IF ~Converted(journey) THEN Return(credits)
    ELSE IF Touchpoints(journey) = <<>> THEN Return(credits)
    ELSE IF Unparsed(Touchpoints(journey)) # {}
         THEN Raise(ParseError(FirstUnparsed(Touchpoints(journey)).timestamp))
    ELSE LET sorted_tp == sorted(Touchpoints(journey))
             weights == time_decay_weights(half_life_days, sorted_tp)
         IN  IF RSumSeq(weights) = Zero THEN Return(credits)
             ELSE Return(CreditEach(credits, sorted_tp,
                                    time_decay_shares(weights, Revenue(journey))))

(***************************************************************************)
(* position_based_attribution: one journey                                 *)
(***************************************************************************)
\* fault seeded for C5: every middle touchpoint gets the whole middle share
position_shares_undivided(n, revenue) ==
    [i \in 1..n |->
        IF n = 1 THEN revenue
        ELSE IF n = 2 THEN RMul(revenue, Rat(1, 2))
        ELSE IF i = 1 \/ i = n THEN RMul(revenue, Rat(2, 5))
        ELSE RMul(revenue, Rat(1, 5))]

\* fault seeded for C29: the case n == 1 is missing, an only touchpoint is credited
\* as the first and as the last, 0.4 of the revenue each
position_shares_no_single(n, revenue) ==
    [i \in 1..n |->
        IF n = 1 THEN RMul(revenue, Rat(4, 5))
        ELSE IF n = 2 THEN RMul(revenue, Rat(1, 2))
        ELSE IF i = 1 \/ i = n THEN RMul(revenue, Rat(2, 5))
        ELSE safe_divide(RMul(revenue, Rat(1, 5)), Num(n - 2), Zero)]

\* what each of the n sorted touchpoints adds: revenue; revenue * 0.5 each; or
\* revenue * 0.4 first and last, safe_divide(revenue * 0.2, n - 2) each one between
position_shares(n, revenue) ==
    [i \in 1..n |->
        IF n = 1 THEN revenue
        ELSE IF n = 2 THEN RMul(revenue, Rat(1, 2))
        ELSE IF i = 1 \/ i = n THEN RMul(revenue, Rat(2, 5))
        ELSE safe_divide(RMul(revenue, Rat(1, 5)), Num(n - 2), Zero)]

\* the code credits the first, the last, then the touchpoints between; the sums do
\* not depend on that order, and the shares are credited here in timestamp order
position_based_journey(credits, journey) ==
    IF ~Converted(journey) THEN Return(credits)
    ELSE IF Touchpoints(journey) = <<>> THEN Return(credits)
    ELSE IF Unparsed(Touchpoints(journey)) # {}
         THEN Raise(ParseError(FirstUnparsed(Touchpoints(journey)).timestamp))
    ELSE LET sorted_tp == sorted(Touchpoints(journey))
         IN  Return(CreditEach(credits, sorted_tp,
                               position_shares(Len(sorted_tp), Revenue(journey))))

(***************************************************************************)
(* The loop of the five models                                             *)
(***************************************************************************)
\* the body of "for journey in journeys" of a model, given as <<name>> or, for
\* time-decay, <<name, half_life_days>>
LoopBody(model, credits, journey) ==
    IF model[1] = "first-touch" THEN first_touch_journey(credits, journey)
    ELSE IF model[1] = "last-touch" THEN last_touch_journey(credits, journey)
    ELSE IF model[1] = "linear" THEN linear_journey(credits, journey)
    ELSE IF model[1] = "time-decay" THEN time_decay_journey(model[2], credits, journey)
    ELSE position_based_journey(credits, journey)

\* fault seeded for C11: a journey that is skipped ends the loop ("break" written
\* for "continue")
ForEachBreaking(model, journeys) ==
    LET skipped == {i \in 1..Len(journeys) : ~Eligible(journeys[i])}
        last == IF skipped = {} THEN Len(journeys)
                ELSE (CHOOSE i \in skipped : \A k \in skipped : i <= k) - 1
        after[i \in 0..last] ==
            IF i = 0 THEN Return(EmptyLedger)
            ELSE LET before == after[i - 1]
                 IN  IF ~before.ok THEN before
                     ELSE LoopBody(model, before.credits, journeys[i])
    IN  after[last]

\* credits = {}; for journey in journeys: <body>; return credits.  A body that
\* raises ends the loop, and the call, with its exception
ForEach(model, journeys) ==
    LET after[i \in 0..Len(journeys)] ==
            IF i = 0 THEN Return(EmptyLedger)
            ELSE LET before == after[i - 1]
                 IN  IF ~before.ok THEN before
                     ELSE LoopBody(model, before.credits, journeys[i])
    IN  after[Len(journeys)]

first_touch_attribution(journeys) == ForEach(<<"first-touch">>, journeys)
last_touch_attribution(journeys) == ForEach(<<"last-touch">>, journeys)
linear_attribution(journeys) == ForEach(<<"linear">>, journeys)
position_based_attribution(journeys) == ForEach(<<"position-based">>, journeys)

\* math.log(2) / half_life_days raises ZeroDivisionError before the loop
time_decay_attribution(journeys, half_life_days) ==
    IF half_life_days = 0
    THEN Raise([type |-> "ZeroDivisionError", what |-> "float division by zero",
                value |-> half_life_days])
    ELSE ForEach(<<"time-decay", half_life_days>>, journeys)

(***************************************************************************)
(* run_model                                                               *)
(***************************************************************************)
\* fault seeded for C21: "linear" is dispatched to the model that takes the half-life
run_model_decaying_linear(model_name, journeys, half_life) ==
    IF model_name = "first-touch" THEN first_touch_attribution(journeys)
    ELSE IF model_name = "last-touch" THEN last_touch_attribution(journeys)
    ELSE IF model_name = "linear" THEN time_decay_attribution(journeys, half_life)
    ELSE IF model_name = "time-decay" THEN time_decay_attribution(journeys, half_life)
    ELSE IF model_name = "position-based" THEN position_based_attribution(journeys)
    ELSE Raise([type |-> "ValueError", what |-> "Unknown model", value |-> model_name,
                choose_from |-> MODELS])

\* fault seeded for C12: the last branch handles every other name as position-based
run_model_defaulting(model_name, journeys, half_life) ==
    IF model_name = "first-touch" THEN first_touch_attribution(journeys)
    ELSE IF model_name = "last-touch" THEN last_touch_attribution(journeys)
    ELSE IF model_name = "linear" THEN linear_attribution(journeys)
    ELSE IF model_name = "time-decay" THEN time_decay_attribution(journeys, half_life)
    ELSE position_based_attribution(journeys)

run_model(model_name, journeys, half_life) ==
    IF model_name = "first-touch" THEN first_touch_attribution(journeys)
    ELSE IF model_name = "last-touch" THEN last_touch_attribution(journeys)
    ELSE IF model_name = "linear" THEN linear_attribution(journeys)
    ELSE IF model_name = "time-decay" THEN time_decay_attribution(journeys, half_life)
    ELSE IF model_name = "position-based" THEN position_based_attribution(journeys)
    ELSE Raise([type |-> "ValueError", what |-> "Unknown model", value |-> model_name,
                choose_from |-> MODELS])

(***************************************************************************)
(* compute_summary                                                         *)
(***************************************************************************)
\* sorted(all_channels)
RECURSIVE sorted_channels(_)
sorted_channels(all_channels) ==
    IF all_channels = {} THEN <<>>
    ELSE LET least == CHOOSE c \in all_channels : \A d \in all_channels : Rank(c) <= Rank(d)
         IN  <<least>> \o sorted_channels(all_channels \ {least})

\* j.get("revenue", 0.0)
SummaryRevenue(journey) == IF "revenue" \in DOMAIN journey THEN Num(journey.revenue) ELSE Zero

\* fault seeded for C30: the revenue of every journey is summed, converted or not
compute_summary_all_revenue(journeys) ==
    LET total_journeys == Len(journeys)
        converted == Cardinality({i \in 1..Len(journeys) : Converted(journeys[i])})
        total_revenue == RSumSeq([i \in 1..Len(journeys) |-> SummaryRevenue(journeys[i])])
        all_channels ==
            UNION {{Touchpoints(journeys[i])[k].channel :
                       k \in 1..Len(Touchpoints(journeys[i]))} : i \in 1..Len(journeys)}
    IN  [total_journeys |-> total_journeys,
         converted_journeys |-> converted,
         conversion_rate |->
             Round2(RMul(safe_divide(Num(converted), Num(total_journeys), Zero), Num(100))),
         total_revenue |-> Round2(total_revenue),
         channels_observed |-> sorted_channels(all_channels)]

\* fault seeded for C20: only the converted journeys' channels are collected
compute_summary_converted_channels(journeys) ==
    LET total_journeys == Len(journeys)
        converted == Cardinality({i \in 1..Len(journeys) : Converted(journeys[i])})
        total_revenue ==
            RSumSeq([i \in 1..Len(journeys) |->
                        IF Converted(journeys[i]) THEN SummaryRevenue(journeys[i]) ELSE Zero])
        all_channels ==
            UNION {{Touchpoints(journeys[i])[k].channel :
                       k \in 1..Len(Touchpoints(journeys[i]))} :
                   i \in {n \in 1..Len(journeys) : Converted(journeys[n])}}
    IN  [total_journeys |-> total_journeys,
         converted_journeys |-> converted,
         conversion_rate |->
             Round2(RMul(safe_divide(Num(converted), Num(total_journeys), Zero), Num(100))),
         total_revenue |-> Round2(total_revenue),
         channels_observed |-> sorted_channels(all_channels)]

\* fault seeded for C18: a journey without the converted flag counts as converted
compute_summary_flag_defaults_true(journeys) ==
    LET total_journeys == Len(journeys)
        converted ==
            Cardinality({i \in 1..Len(journeys) :
                            "converted" \notin DOMAIN journeys[i] \/ journeys[i].converted})
        total_revenue ==
            RSumSeq([i \in 1..Len(journeys) |->
                        IF Converted(journeys[i]) THEN SummaryRevenue(journeys[i]) ELSE Zero])
        all_channels ==
            UNION {{Touchpoints(journeys[i])[k].channel :
                       k \in 1..Len(Touchpoints(journeys[i]))} : i \in 1..Len(journeys)}
    IN  [total_journeys |-> total_journeys,
         converted_journeys |-> converted,
         conversion_rate |->
             Round2(RMul(safe_divide(Num(converted), Num(total_journeys), Zero), Num(100))),
         total_revenue |-> Round2(total_revenue),
         channels_observed |-> sorted_channels(all_channels)]

compute_summary(journeys) ==
    LET total_journeys == Len(journeys)
        converted == Cardinality({i \in 1..Len(journeys) : Converted(journeys[i])})
        total_revenue ==
            RSumSeq([i \in 1..Len(journeys) |->
                        IF Converted(journeys[i]) THEN SummaryRevenue(journeys[i]) ELSE Zero])
        all_channels ==
            UNION {{Touchpoints(journeys[i])[k].channel :
                       k \in 1..Len(Touchpoints(journeys[i]))} : i \in 1..Len(journeys)}
    IN  [total_journeys |-> total_journeys,
         converted_journeys |-> converted,
         conversion_rate |->
             Round2(RMul(safe_divide(Num(converted), Num(total_journeys), Zero), Num(100))),
         total_revenue |-> Round2(total_revenue),
         channels_observed |-> sorted_channels(all_channels)]

(***************************************************************************)
(* main: the state of one run                                              *)
(***************************************************************************)
VARIABLES
    journeys,       \* data.get("journeys", [])
    model_arg,      \* args.model: a model name, or "none" when --model is not given
    half_life,      \* args.half_life
    pc,             \* "load", "run", "done" (report printed), "exit" (sys.exit(1)),
                    \* "raised" (ended by an uncaught exception, nothing printed)
    todo,           \* the models of models_to_run the loop has not run yet
    model_name,     \* the loop variable: the model run last
    credits,        \* what run_model returned last, unrounded
    model_results,  \* model name -> its ledger rounded to 2 decimals
    results,        \* the report handed to print, <<>> before
    error,          \* the exception or message the run ended with, <<>> before
    call            \* a function of the module called by an importing caller: its
                    \* name, its arguments and what it ended with; <<>> when main runs

vars == <<journeys, model_arg, half_life, pc, todo, model_name, credits,
          model_results, results, error, call>>

(***************************************************************************)
(* The inputs that are checked.                                            *)
(***************************************************************************)
IsoT(day) == [fmt |-> Formats[1], day |-> day]
IsoSpace(day) == [fmt |-> Formats[2], day |-> day]
DateOnly(day) == [fmt |-> Formats[3], day |-> day]
\* a string such as "31/12/2024", which no format matches
BadStamp == [fmt |-> "%d/%m/%Y", day |-> 0]
Tp(channel, timestamp) == [channel |-> channel, timestamp |-> timestamp]

\* one string per day, the three formats in turn
StampOf(day) == [fmt |-> Formats[(day % Len(Formats)) + 1], day |-> day]
SingleTouchpoints == {Tp(c, StampOf(d)) : c \in Channels, d \in Days}
\* the channels of an array named in the order they first appear in it (a model
\* reads a channel name only to use it as a key)
NamedInOrder(a) ==
    \A i \in 1..Len(a) :
        \A k \in 1..Rank(a[i].channel) - 1 : \E e \in 1..i - 1 : Rank(a[e].channel) = k
DistinctInstants(touchpoints) ==
    \A i, k \in 1..Len(touchpoints) :
        i # k => parse_timestamp(touchpoints[i].timestamp)
                     # parse_timestamp(touchpoints[k].timestamp)
\* every array of up to MaxTouch touchpoints, and every array with one touchpoint a day
Arrays ==
    {a \in UNION {[1..k -> SingleTouchpoints] : k \in 1..MaxTouch} : NamedInOrder(a)}
    \cup {a \in [1..Cardinality(Days) -> SingleTouchpoints] :
              NamedInOrder(a) /\ DistinctInstants(a)}
\* one converted journey: every array with a revenue of 60, and the arrays of
\* distinct instants also without a revenue
SingleJourneys ==
    {[converted |-> TRUE, revenue |-> 60, touchpoints |-> a] : a \in Arrays}
    \cup {[converted |-> TRUE, touchpoints |-> a] : a \in {b \in Arrays : DistinctInstants(b)}}
\* the command lines of the single-journey inputs: all five models with half-life 1,
\* and time-decay alone with half-life 0 and the other positive half-lives
SingleArgs ==
    {<<"none", 1>>} \cup {<<"time-decay", h>> : h \in (PositiveHalfLives \cup {0}) \ {1}}

\* the journeys the batch inputs are lists of
Catalogue ==
    { [converted |-> TRUE, revenue |-> 60,
       touchpoints |-> <<Tp("A", DateOnly(0)), Tp("B", IsoT(4)), Tp("C", IsoSpace(12)),
                         Tp("B", IsoT(8))>>],
      [converted |-> TRUE,
       touchpoints |-> <<Tp("B", IsoT(8)), Tp("A", IsoT(0))>>],
      [converted |-> TRUE, revenue |-> 100,
       touchpoints |-> <<Tp("C", DateOnly(4))>>],
      [converted |-> TRUE, revenue |-> 30,
       touchpoints |-> <<Tp("A", IsoT(4)), Tp("B", DateOnly(4)), Tp("A", IsoSpace(8))>>],
      [converted |-> FALSE, revenue |-> 60,
       touchpoints |-> <<Tp("C", DateOnly(0)), Tp("B", IsoT(4))>>],
      [revenue |-> 60,
       touchpoints |-> <<Tp("A", DateOnly(0))>>],
      [converted |-> TRUE, revenue |-> 60, touchpoints |-> <<>>],
      [converted |-> TRUE, revenue |-> 60],
      [converted |-> TRUE, revenue |-> 40,
       touchpoints |-> <<Tp("A", DateOnly(0)), Tp("B", BadStamp)>>],
      [converted |-> FALSE,
       touchpoints |-> <<Tp("C", BadStamp)>>] }

ModelSet == {MODELS[i] : i \in 1..Len(MODELS)}

Start ==
    /\ pc = "load"
    /\ todo = <<>>
    /\ model_name = ""
    /\ credits = EmptyLedger
    /\ model_results = <<>>
    /\ results = <<>>
    /\ error = <<>>
    /\ call = <<>>

\* a list of up to MaxJourneys journeys of the catalogue, any --model, and a negative,
\* a zero and two positive values of --half-life
Init ==
    /\ journeys \in UNION {[1..n -> Catalogue] : n \in 0..MaxJourneys}
    /\ model_arg \in {"none"} \cup ModelSet
    /\ half_life \in HalfLives \ {1}
    /\ Start

\* one journey in depth (or none)
InitJourney ==
    /\ journeys \in {<<>>} \cup {<<j>> : j \in SingleJourneys}
    /\ \E args \in SingleArgs : model_arg = args[1] /\ half_life = args[2]
    /\ Start

(***************************************************************************)
(* main: its steps                                                         *)
(***************************************************************************)
\* if not journeys: print("Error: No 'journeys' array ..."); sys.exit(1)
NoJourneys ==
    /\ pc = "load"
    /\ journeys = <<>>
    /\ pc' = "exit"
    /\ error' = "Error: No 'journeys' array found in input data."
    /\ UNCHANGED <<journeys, model_arg, half_life, todo, model_name, credits,
                   model_results, results, call>>

\* models_to_run = [args.model] if args.model else MODELS
DetermineModels ==
    /\ pc = "load"
    /\ journeys # <<>>
    /\ todo' = IF model_arg = "none" THEN MODELS ELSE <<model_arg>>
    /\ pc' = "run"
    /\ UNCHANGED <<journeys, model_arg, half_life, model_name, credits,
                   model_results, results, error, call>>

\* fault seeded for C22: a model that sorts does it in place, touchpoints.sort(key=...),
\* and leaves every eligible journey's array in timestamp order
RunModelSortingInPlace ==
    /\ pc = "run"
    /\ todo # <<>>
    /\ LET returned == run_model(Head(todo), journeys, half_life)
       IN  /\ returned.ok
           /\ model_name' = Head(todo)
           /\ credits' = returned.credits
           /\ model_results' =
                  [m \in DOMAIN model_results \cup {Head(todo)} |->
                      IF m = Head(todo)
                      THEN [ch \in DOMAIN returned.credits |-> Round2(returned.credits[ch])]
                      ELSE model_results[m]]
    /\ journeys' =
           [i \in 1..Len(journeys) |->
               IF Head(todo) # "linear" /\ Eligible(journeys[i])
               THEN [journeys[i] EXCEPT !.touchpoints = sorted(@)]
               ELSE journeys[i]]
    /\ todo' = Tail(todo)
    /\ UNCHANGED <<model_arg, half_life, pc, results, error, call>>

\* fault seeded for C16: the models share one ledger, each adds to what the model
\* before it has left there
RunModelSharedLedger ==
    /\ pc = "run"
    /\ todo # <<>>
    /\ LET returned == run_model(Head(todo), journeys, half_life)
           shared == IF returned.ok
                     THEN [c \in DOMAIN credits \cup DOMAIN returned.credits |->
                              RAdd(Get(credits, c), Get(returned.credits, c))]
                     ELSE credits
       IN  /\ returned.ok
           /\ model_name' = Head(todo)
           /\ credits' = shared
           /\ model_results' =
                  [m \in DOMAIN model_results \cup {Head(todo)} |->
                      IF m = Head(todo)
                      THEN [ch \in DOMAIN shared |-> Round2(shared[ch])]
                      ELSE model_results[m]]
    /\ todo' = Tail(todo)
    /\ UNCHANGED <<journeys, model_arg, half_life, pc, results, error, call>>

\* one pass of "for model_name in models_to_run" in which run_model returns
RunModel ==
    /\ pc = "run"
    /\ todo # <<>>
    /\ LET returned == run_model(Head(todo), journeys, half_life)
       IN  /\ returned.ok
           /\ model_name' = Head(todo)
           /\ credits' = returned.credits
           /\ model_results' =
                  [m \in DOMAIN model_results \cup {Head(todo)} |->
                      IF m = Head(todo)
                      THEN [ch \in DOMAIN returned.credits |-> Round2(returned.credits[ch])]
                      ELSE model_results[m]]
    /\ todo' = Tail(todo)
    /\ UNCHANGED <<journeys, model_arg, half_life, pc, results, error, call>>

\* fault seeded for C15: the loop catches the exception and goes on to the next model
RunModelRaisesSkipped ==
    /\ pc = "run"
    /\ todo # <<>>
    /\ LET returned == run_model(Head(todo), journeys, half_life)
       IN  /\ ~returned.ok
           /\ error' = returned.error
    /\ model_name' = Head(todo)
    /\ todo' = Tail(todo)
    /\ UNCHANGED <<journeys, model_arg, half_life, pc, credits, model_results, results,
                   call>>

\* one pass in which run_model raises: nothing catches it, main ends without a report
RunModelRaises ==
    /\ pc = "run"
    /\ todo # <<>>
    /\ LET returned == run_model(Head(todo), journeys, half_life)
       IN  /\ ~returned.ok
           /\ error' = returned.error
    /\ model_name' = Head(todo)
    /\ pc' = "raised"
    /\ UNCHANGED <<journeys, model_arg, half_life, todo, credits, model_results, results,
                   call>>

\* results = {"summary": compute_summary(journeys), "models": model_results}; print
BuildOutput ==
    /\ pc = "run"
    /\ todo = <<>>
    /\ results' = [summary |-> compute_summary(journeys), models |-> model_results]
    /\ pc' = "done"
    /\ UNCHANGED <<journeys, model_arg, half_life, todo, model_name, credits,
                   model_results, error, call>>

Next == NoJourneys \/ DetermineModels \/ RunModel \/ RunModelRaises \/ BuildOutput

Spec == Init /\ [][Next]_vars
SpecJourney == InitJourney /\ [][Next]_vars

(***************************************************************************)
(* main over the journey of the documented example: revenue 100, channel A *)
(* on day 0, B on day 5, C on day 10, the array in any order.              *)
(***************************************************************************)
ExampleTouchpoints == <<Tp("A", StampOf(0)), Tp("B", StampOf(5)), Tp("C", StampOf(10))>>
ExampleJourneys ==
    {[converted |-> TRUE, revenue |-> 100,
      touchpoints |-> [i \in 1..3 |-> ExampleTouchpoints[p[i]]]] :
        p \in {q \in [1..3 -> 1..3] : \A i, k \in 1..3 : i # k => q[i] # q[k]}}
\* zero, and half-lives that divide the example's gaps of 5 and 10 days
ExampleHalfLives == {0, 1, 5}

\* the example (or no journey at all)
InitExample ==
    /\ journeys \in {<<>>} \cup {<<j>> : j \in ExampleJourneys}
    /\ model_arg \in {"none"} \cup ModelSet
    /\ half_life \in ExampleHalfLives
    /\ Start

SpecExample == InitExample /\ [][Next]_vars

(***************************************************************************)
(* The functions of the module called one by one, as a caller that imports *)
(* the module calls them: main's argparse and its test of the journey list *)
(* are not in the way.                                                     *)
(***************************************************************************)
\* model identifiers MODELS does not hold
UnknownNames == {"time_decay", "markov"}
\* numbers safe_divide is called with
Numerators == {Num(-3), Zero, One, Rat(7, 2)}
Denominators == {Zero, Num(-2), Num(4), Rat(1, 3)}
Defaults == {One, Num(-1)}
\* the keyword arguments of a safe_divide call: default is given, or left out
SafeDivideArgs ==
    {[numerator |-> n, denominator |-> d] : n \in Numerators, d \in Denominators}
    \cup {[numerator |-> n, denominator |-> d, default |-> x] :
              n \in Numerators, d \in Denominators, x \in Defaults}

\* five journeys of which longer lists are made: a converted one without a revenue,
\* one without the converted flag, an unconverted one, and two converted ones of one
\* touchpoint, whose timestamp parses and does not
Few ==
    { [converted |-> TRUE,
       touchpoints |-> <<Tp("B", IsoT(8)), Tp("A", IsoT(0))>>],
      [revenue |-> 60,
       touchpoints |-> <<Tp("A", DateOnly(0))>>],
      [converted |-> FALSE,
       touchpoints |-> <<Tp("C", BadStamp)>>],
      [converted |-> TRUE, revenue |-> 40,
       touchpoints |-> <<Tp("A", IsoSpace(4))>>],
      [converted |-> TRUE, revenue |-> 40,
       touchpoints |-> <<Tp("B", BadStamp)>>] }
\* the lists of up to MaxJourneys journeys of the catalogue, and the lists one longer
\* of the five journeys
CallLists ==
    UNION {[1..n -> Catalogue] : n \in 0..MaxJourneys} \cup [1..MaxJourneys + 1 -> Few]

\* the module is imported; the caller holds a journey list
InitCall ==
    /\ journeys \in CallLists
    /\ model_arg = "none"
    /\ half_life = 1
    /\ pc = "import"
    /\ todo = <<>>
    /\ model_name = ""
    /\ credits = EmptyLedger
    /\ model_results = <<>>
    /\ results = <<>>
    /\ error = <<>>
    /\ call = <<>>

\* what a call that returns something other than a ledger ends with
Value(v) == [ok |-> TRUE, value |-> v]

\* run_model(name, journeys, h)
CallRunModel ==
    /\ pc = "import"
    /\ \E name \in ModelSet \cup UnknownNames, h \in HalfLives :
           LET ended == run_model(name, journeys, h)
           IN  /\ call' = [fn |-> "run_model", model_name |-> name, half_life |-> h,
                           ended |-> ended]
               /\ pc' = IF ended.ok THEN "returned" ELSE "raised"
    /\ UNCHANGED <<journeys, model_arg, half_life, todo, model_name, credits,
                   model_results, results, error>>

\* time_decay_attribution(journeys, h)
CallTimeDecay ==
    /\ pc = "import"
    /\ \E h \in HalfLives :
           LET ended == time_decay_attribution(journeys, h)
           IN  /\ call' = [fn |-> "time_decay_attribution", half_life_days |-> h,
                           ended |-> ended]
               /\ pc' = IF ended.ok THEN "returned" ELSE "raised"
    /\ UNCHANGED <<journeys, model_arg, half_life, todo, model_name, credits,
                   model_results, results, error>>

\* compute_summary(journeys)
CallComputeSummary ==
    /\ pc = "import"
    /\ call' = [fn |-> "compute_summary", ended |-> Value(compute_summary(journeys))]
    /\ pc' = "returned"
    /\ UNCHANGED <<journeys, model_arg, half_life, todo, model_name, credits,
                   model_results, results, error>>

\* safe_divide(numerator, denominator) or safe_divide(numerator, denominator, default):
\* the parameter default is 0.0 when the call leaves it out
CallSafeDivide ==
    /\ pc = "import"
    /\ \E args \in SafeDivideArgs :
           LET default == IF "default" \in DOMAIN args THEN args.default ELSE Zero
           IN  call' = [fn |-> "safe_divide", args |-> args,
                        ended |-> Value(safe_divide(args.numerator, args.denominator,
                                                    default))]
    /\ pc' = "returned"
    /\ UNCHANGED <<journeys, model_arg, half_life, todo, model_name, credits,
                   model_results, results, error>>

NextCall == CallRunModel \/ CallTimeDecay \/ CallComputeSummary \/ CallSafeDivide

SpecCall == InitCall /\ [][NextCall]_vars

(***************************************************************************)
(* What the properties below are stated with.                              *)
(***************************************************************************)
\* the state holds the ledger run_model returned for model m
Returned(m) == model_name = m /\ pc \in {"run", "done"}

RECURSIVE LedgerTotal(_)
LedgerTotal(ledger) ==
    IF DOMAIN ledger = {} THEN Zero
    ELSE LET c == CHOOSE c \in DOMAIN ledger : TRUE
         IN  RAdd(ledger[c], LedgerTotal([d \in DOMAIN ledger \ {c} |-> ledger[d]]))

\* the revenue of the eligible journeys
EligibleRevenue(js) ==
    RSumSeq([i \in 1..Len(js) |-> IF Eligible(js[i]) THEN Revenue(js[i]) ELSE Zero])

Orders(n) == {p \in [1..n -> 1..n] : \A i, k \in 1..n : i # k => p[i] # p[k]}
Permuted(seq, p) == [i \in 1..Len(seq) |-> seq[p[i]]]

(***************************************************************************)
(* C1  Credit conservation.  Whenever one of the five models (time-decay   *)
(* with a positive half-life) has returned its ledger for the journey      *)
(* list, the unrounded ledger total equals the summed revenue of the       *)
(* eligible journeys (1.0 for an absent revenue), and journey by journey   *)
(* the total grows by exactly that journey's revenue if it is eligible     *)
(* and by nothing otherwise.                                               *)
(***************************************************************************)
C1_CreditConservation ==
    (Returned(model_name) /\ model_name \in ModelSet
        /\ (model_name = "time-decay" => half_life > 0))
    => /\ LedgerTotal(credits) = EligibleRevenue(journeys)
       /\ \A n \in 1..Len(journeys) :
            LET before == run_model(model_name, SubSeq(journeys, 1, n - 1), half_life)
                after == run_model(model_name, SubSeq(journeys, 1, n), half_life)
            IN  /\ before.ok /\ after.ok
                /\ LedgerTotal(after.credits)
                     = RAdd(LedgerTotal(before.credits),
                            IF Eligible(journeys[n]) THEN Revenue(journeys[n]) ELSE Zero)

\* time-decay has run over two different eligible journeys, one without a revenue,
\* and credited three channels
C1_Witness ==
    /\ Returned("time-decay") /\ half_life = 2
    /\ Len(journeys) = 2 /\ journeys[1] # journeys[2]
    /\ Eligible(journeys[1]) /\ Eligible(journeys[2])
    /\ "revenue" \notin DOMAIN journeys[2]
    /\ Cardinality(DOMAIN credits) = 3

(***************************************************************************)
(* Single-journey properties: the journey list is one eligible journey.    *)
(***************************************************************************)
OneJourney == Len(journeys) = 1 /\ Eligible(journeys[1])
Instant(tp) == parse_timestamp(tp.timestamp)
\* the journey with its touchpoint array reordered by p
Reordered(journey, p) ==
    [k \in DOMAIN journey |->
        IF k = "touchpoints" THEN Permuted(journey.touchpoints, p) ELSE journey[k]]
\* the touchpoint before (after) every other one, for distinct instants
Earliest(tps) == CHOOSE i \in 1..Len(tps) : \A k \in 1..Len(tps) : Instant(tps[i]) <= Instant(tps[k])
Latest(tps) == CHOOSE i \in 1..Len(tps) : \A k \in 1..Len(tps) : Instant(tps[k]) <= Instant(tps[i])
\* the ledger with one key
Only(channel, amount) == [c \in {channel} |-> amount]

(***************************************************************************)
(* C2  first_touch_attribution, for one eligible journey whose touchpoints *)
(* have pairwise distinct timestamps, returns the ledger with exactly one  *)
(* key, the channel of the touchpoint with the earliest timestamp, holding *)
(* the journey's whole revenue; and it returns that same ledger for every  *)
(* permutation of the touchpoint array.                                    *)
(***************************************************************************)
C2_FirstTouchEarliest ==
    (Returned("first-touch") /\ OneJourney /\ DistinctInstants(journeys[1].touchpoints))
    => LET tps == journeys[1].touchpoints
           expected == Only(tps[Earliest(tps)].channel, Revenue(journeys[1]))
       IN  /\ credits = expected
           /\ \A p \in Orders(Len(tps)) :
                first_touch_attribution(<<Reordered(journeys[1], p)>>) = Return(expected)

\* first-touch has credited the channel of a touchpoint that is third in the array,
\* which the first array entry does not have
C2_Witness ==
    /\ Returned("first-touch") /\ OneJourney
    /\ LET tps == journeys[1].touchpoints
       IN  /\ Len(tps) >= 3 /\ DistinctInstants(tps)
           /\ Earliest(tps) = 3
           /\ tps[1].channel # tps[3].channel
           /\ credits = Only(tps[3].channel, Num(60))

(***************************************************************************)
(* C3  last_touch_attribution, for one eligible journey whose touchpoints  *)
(* have pairwise distinct timestamps, returns the ledger with exactly one  *)
(* key, the channel of the touchpoint with the latest timestamp, holding   *)
(* the journey's whole revenue; and it returns that same ledger for every  *)
(* permutation of the touchpoint array.                                    *)
(***************************************************************************)
C3_LastTouchLatest ==
    (Returned("last-touch") /\ OneJourney /\ DistinctInstants(journeys[1].touchpoints))
    => LET tps == journeys[1].touchpoints
           expected == Only(tps[Latest(tps)].channel, Revenue(journeys[1]))
       IN  /\ credits = expected
           /\ \A p \in Orders(Len(tps)) :
                last_touch_attribution(<<Reordered(journeys[1], p)>>) = Return(expected)

\* last-touch has credited the channel of a touchpoint that is first in the array,
\* which the last array entry does not have; the journey has no revenue field
C3_Witness ==
    /\ Returned("last-touch") /\ OneJourney
    /\ LET tps == journeys[1].touchpoints
       IN  /\ Len(tps) >= 3 /\ DistinctInstants(tps)
           /\ Latest(tps) = 1
           /\ tps[1].channel # tps[Len(tps)].channel
           /\ "revenue" \notin DOMAIN journeys[1]
           /\ credits = Only(tps[1].channel, One)

\* the channels of an array, and the sum of what the touchpoints of one channel get
ChannelsOf(tps) == {tps[i].channel : i \in 1..Len(tps)}
SumFor(channel, tps, amounts) ==
    RSumSeq([i \in 1..Len(tps) |-> IF tps[i].channel = channel THEN amounts[i] ELSE Zero])

(***************************************************************************)
(* C4  linear_attribution, for one eligible journey with N touchpoints and *)
(* revenue R, returns the ledger whose keys are the journey's channels and *)
(* in which a channel that occurs k times holds k * R / N (R / N for each  *)
(* touchpoint); it returns that same ledger for every permutation of the   *)
(* touchpoint array.                                                       *)
(***************************************************************************)
C4_LinearEqualShares ==
    (Returned("linear") /\ OneJourney)
    => LET tps == journeys[1].touchpoints
           R == Revenue(journeys[1])
           N == Len(tps)
           k(c) == Cardinality({i \in 1..N : tps[i].channel = c})
       IN  /\ DOMAIN credits = ChannelsOf(tps)
           /\ \A c \in ChannelsOf(tps) : credits[c] = RDiv(RMul(Num(k(c)), R), Num(N))
           /\ \A p \in Orders(N) :
                linear_attribution(<<Reordered(journeys[1], p)>>) = Return(credits)

\* linear has split a revenue of 60 over three touchpoints, two of them of channel A
C4_Witness ==
    /\ Returned("linear") /\ OneJourney
    /\ Len(journeys[1].touchpoints) = 3
    /\ DOMAIN credits = {"A", "B"}
    /\ credits["A"] = Num(40) /\ credits["B"] = Num(20)

(***************************************************************************)
(* C5  position_based_attribution, for one eligible journey with revenue R *)
(* and N touchpoints of pairwise distinct timestamps, taken in timestamp   *)
(* order: N = 1 gives R to the single channel; N = 2 gives R/2 to the      *)
(* first and R/2 to the last touchpoint's channel; N >= 3 gives 2R/5 to    *)
(* the first, 2R/5 to the last and (R/5)/(N-2) to each touchpoint between, *)
(* a channel holding the sum of what its touchpoints get.                  *)
(***************************************************************************)
C5_PositionBasedShares ==
    (Returned("position-based") /\ OneJourney /\ DistinctInstants(journeys[1].touchpoints))
    => LET tps == journeys[1].touchpoints
           R == Revenue(journeys[1])
           N == Len(tps)
           \* 1 for the earliest touchpoint, N for the latest
           place(i) == 1 + Cardinality({e \in 1..N : Instant(tps[e]) < Instant(tps[i])})
           gets(i) == IF N = 1 THEN R
                      ELSE IF N = 2 THEN RDiv(R, Num(2))
                      ELSE IF place(i) \in {1, N} THEN RDiv(RMul(Num(2), R), Num(5))
                      ELSE RDiv(RDiv(R, Num(5)), Num(N - 2))
       IN  /\ DOMAIN credits = ChannelsOf(tps)
           /\ \A c \in ChannelsOf(tps) : credits[c] = SumFor(c, tps, [i \in 1..N |-> gets(i)])

\* position-based has split a revenue of 60 over four touchpoints given out of
\* timestamp order: 24 to the first channel, 6 to one between, 24 + 6 to the last one
C5_Witness ==
    /\ Returned("position-based") /\ OneJourney
    /\ LET tps == journeys[1].touchpoints
       IN  /\ Len(tps) = 4 /\ DistinctInstants(tps)
           /\ Earliest(tps) # 1 /\ Latest(tps) # 4
           /\ credits = [c \in {"A", "B", "C"} |->
                            IF c = tps[Earliest(tps)].channel THEN Num(24)
                            ELSE IF c = tps[Latest(tps)].channel THEN Num(30) ELSE Num(6)]

(***************************************************************************)
(* Time-decay: what one eligible journey's touchpoints get.                *)
(***************************************************************************)
DistinctChannels(tps) == \A i, k \in 1..Len(tps) : i # k => tps[i].channel # tps[k].channel
\* the shares of revenue of the touchpoints in timestamp order, as lines 114-131
\* compute them for half-life h
SharesInOrder(journey, h) ==
    time_decay_shares(time_decay_weights(h, sorted(journey.touchpoints)), One)
\* the share of the touchpoint that is latest
LatestShare(journey, h) == SharesInOrder(journey, h)[Len(journey.touchpoints)]
\* a ledger entry as a share of the journey's revenue
ShareOf(ledger, channel, journey) == RDiv(ledger[channel], Revenue(journey))

(***************************************************************************)
(* C6  time_decay_attribution with a positive half-life, for one eligible  *)
(* journey whose touchpoints have pairwise distinct timestamps: the share  *)
(* of revenue is strictly increasing with the timestamp.  Of two           *)
(* touchpoints the later one gets strictly more, so the latest gets the    *)
(* largest share; with distinct channels this is read off the ledger.      *)
(***************************************************************************)
C6_TimeDecayFavoursLater ==
    (Returned("time-decay") /\ half_life > 0 /\ OneJourney
        /\ DistinctInstants(journeys[1].touchpoints))
    => LET tps == journeys[1].touchpoints
           shares == SharesInOrder(journeys[1], half_life)
       IN  /\ \A i \in 1..Len(tps) - 1 : RLess(shares[i], shares[i + 1])
           /\ DistinctChannels(tps) =>
                \A i, k \in 1..Len(tps) :
                    Instant(tps[i]) < Instant(tps[k])
                    => RLess(ShareOf(credits, tps[i].channel, journeys[1]),
                             ShareOf(credits, tps[k].channel, journeys[1]))

\* time-decay with half-life 4 has credited three channels whose touchpoints are
\* 4 days apart, given latest first: 60 is split 240/7, 120/7, 60/7
C6_Witness ==
    /\ Returned("time-decay") /\ half_life = 4 /\ OneJourney
    /\ LET tps == journeys[1].touchpoints
       IN  /\ Len(tps) = 3 /\ DistinctChannels(tps)
           /\ Instant(tps[1]) = 8 /\ Instant(tps[2]) = 4 /\ Instant(tps[3]) = 0
           /\ credits[tps[1].channel] = Rat(240, 7)
           /\ credits[tps[2].channel] = Rat(120, 7)
           /\ credits[tps[3].channel] = Rat(60, 7)

(***************************************************************************)
(* C7  time_decay_attribution is monotone in the half-life: for one        *)
(* eligible journey and positive half-lives h1 < h2, the latest            *)
(* touchpoint's share of the revenue under h1 is at least its share under  *)
(* h2.  The ledger returned for the run's half-life holds that share when  *)
(* no other touchpoint has the latest one's channel.                       *)
(***************************************************************************)
C7_HalfLifeMonotone ==
    (Returned("time-decay") /\ half_life > 0 /\ OneJourney)
    => LET tps == journeys[1].touchpoints
           latest == sorted(tps)[Len(tps)]
           others == {i \in 1..Len(tps) : tps[i].channel = latest.channel}
       IN  /\ Cardinality(others) = 1
              => ShareOf(credits, latest.channel, journeys[1])
                     = LatestShare(journeys[1], half_life)
           /\ \A h1, h2 \in PositiveHalfLives :
                h1 < h2 => RLeq(LatestShare(journeys[1], h2), LatestShare(journeys[1], h1))

\* time-decay with half-life 2 has given the latest of three touchpoints 16/21 of the
\* revenue; under half-life 4 it would get 4/7, under half-life 1 it gets 256/273
C7_Witness ==
    /\ Returned("time-decay") /\ half_life = 2 /\ OneJourney
    /\ LET tps == journeys[1].touchpoints
       IN  /\ Len(tps) = 3 /\ DistinctChannels(tps) /\ DistinctInstants(tps)
           /\ ShareOf(credits, tps[Latest(tps)].channel, journeys[1]) = Rat(16, 21)
           /\ LatestShare(journeys[1], 4) = Rat(4, 7)
           /\ LatestShare(journeys[1], 1) = Rat(256, 273)

(***************************************************************************)
(* C8  time_decay_attribution anchors the decay at the latest touchpoint   *)
(* of the journey: with a positive half-life h that touchpoint has weight  *)
(* 1, a touchpoint k half-lives (k * h days) before it has weight 2^(-k),  *)
(* and it is credited 2^(-k) times what the latest touchpoint is credited. *)
(***************************************************************************)
C8_HalvesPerHalfLife ==
    (Returned("time-decay") /\ half_life > 0 /\ OneJourney)
    => LET tps == journeys[1].touchpoints
           N == Len(tps)
           sorted_tp == sorted(tps)
           weights == time_decay_weights(half_life, sorted_tp)
           shares == SharesInOrder(journeys[1], half_life)
           \* the half-lives from a touchpoint to the latest one
           k(tp) == (Instant(tps[Latest(tps)]) - Instant(tp)) \div half_life
       IN  /\ weights[N] = One
           /\ \A i \in 1..N :
                /\ weights[i] = Rat(1, 2 ^ k(sorted_tp[i]))
                /\ RMul(shares[i], Num(2 ^ k(sorted_tp[i]))) = shares[N]
           /\ DistinctChannels(tps) =>
                \A i \in 1..N :
                    RMul(credits[tps[i].channel], Num(2 ^ k(tps[i])))
                        = credits[tps[Latest(tps)].channel]

\* time-decay with half-life 2 has credited a touchpoint 6 half-lives before the
\* latest one 1/64 of the latest one's credit, and one 2 half-lives before it 1/4
C8_Witness ==
    /\ Returned("time-decay") /\ half_life = 2 /\ OneJourney
    /\ LET tps == journeys[1].touchpoints
       IN  /\ Len(tps) = 3 /\ DistinctChannels(tps)
           /\ Latest(tps) = 2
           /\ Instant(tps[2]) - Instant(tps[1]) = 12
           /\ Instant(tps[2]) - Instant(tps[3]) = 4
           /\ RMul(credits[tps[1].channel], Num(64)) = credits[tps[2].channel]
           /\ RMul(credits[tps[3].channel], Num(4)) = credits[tps[2].channel]

(***************************************************************************)
(* C24  Ties are broken by the order of the array.  For one eligible       *)
(* journey, whether instants repeat or not: first-touch credits the        *)
(* touchpoint that comes first in the array among those of the earliest    *)
(* instant, last-touch the one that comes last in the array among those of *)
(* the latest instant, and position-based gives its first and its last     *)
(* share to these two touchpoints and a middle share to every other one.   *)
(***************************************************************************)
FirstOfEarliest(tps) ==
    CHOOSE i \in 1..Len(tps) :
        /\ \A k \in 1..Len(tps) : Instant(tps[i]) <= Instant(tps[k])
        /\ \A k \in 1..i - 1 : Instant(tps[i]) < Instant(tps[k])
LastOfLatest(tps) ==
    CHOOSE i \in 1..Len(tps) :
        /\ \A k \in 1..Len(tps) : Instant(tps[k]) <= Instant(tps[i])
        /\ \A k \in i + 1..Len(tps) : Instant(tps[k]) < Instant(tps[i])

C24_TiesKeepArrayOrder ==
    OneJourney
    => LET tps == journeys[1].touchpoints
           R == Revenue(journeys[1])
           N == Len(tps)
           first == FirstOfEarliest(tps)
           last == LastOfLatest(tps)
           gets(i) == IF N = 1 THEN R
                      ELSE IF N = 2 THEN RDiv(R, Num(2))
                      ELSE IF i \in {first, last} THEN RDiv(RMul(Num(2), R), Num(5))
                      ELSE RDiv(RDiv(R, Num(5)), Num(N - 2))
       IN  /\ Returned("first-touch") => credits = Only(tps[first].channel, R)
           /\ Returned("last-touch") => credits = Only(tps[last].channel, R)
           /\ Returned("position-based")
              => /\ DOMAIN credits = ChannelsOf(tps)
                 /\ \A c \in ChannelsOf(tps) :
                      credits[c] = SumFor(c, tps, [i \in 1..N |-> gets(i)])

\* position-based over A and B of the same, earliest instant and a later C, in this
\* array order: A has the first share of 60, B the middle one
C24_Witness ==
    /\ Returned("position-based") /\ OneJourney
    /\ LET tps == journeys[1].touchpoints
       IN  /\ Len(tps) = 3 /\ DistinctChannels(tps)
           /\ Instant(tps[1]) = Instant(tps[2]) /\ Instant(tps[2]) < Instant(tps[3])
           /\ "revenue" \in DOMAIN journeys[1]
           /\ credits[tps[1].channel] = Num(24)
           /\ credits[tps[2].channel] = Num(12)
           /\ credits[tps[3].channel] = Num(24)

(***************************************************************************)
(* C25  Within one journey the credit of touchpoints of the same channel   *)
(* adds up, in every model.  Over one eligible journey of revenue R with N *)
(* touchpoints, linear, position-based and time-decay (positive half-life) *)
(* return a ledger that totals R however the channels repeat; and when the *)
(* first and the last touchpoint of position-based have the same channel,  *)
(* the channel holds all of R for N = 2, and for N >= 3 it holds 4R/5 plus *)
(* (R/5)/(N-2) for each touchpoint between that has this channel too.      *)
(***************************************************************************)
C25_SameChannelAccumulates ==
    OneJourney
    => LET tps == journeys[1].touchpoints
           R == Revenue(journeys[1])
           N == Len(tps)
           first == FirstOfEarliest(tps)
           last == LastOfLatest(tps)
           c == tps[first].channel
           between == Cardinality({i \in 1..N \ {first, last} : tps[i].channel = c})
       IN  /\ (\/ Returned("linear") \/ Returned("position-based")
               \/ Returned("time-decay") /\ half_life > 0)
              => LedgerTotal(credits) = R
           /\ (Returned("position-based") /\ N >= 2 /\ tps[last].channel = c)
              => credits[c] =
                    IF N = 2 THEN R
                    ELSE RAdd(RDiv(RMul(Num(4), R), Num(5)),
                              RMul(Num(between), RDiv(RDiv(R, Num(5)), Num(N - 2))))

\* position-based over A, B, A at three instants: A holds 24 + 24 of 60, B holds 12
C25_Witness ==
    /\ Returned("position-based") /\ OneJourney
    /\ LET tps == journeys[1].touchpoints
       IN  /\ Len(tps) = 3 /\ DistinctInstants(tps)
           /\ tps[Earliest(tps)].channel = "A" /\ tps[Latest(tps)].channel = "A"
           /\ credits = [ch \in {"A", "B"} |-> IF ch = "A" THEN Num(48) ELSE Num(12)]

(***************************************************************************)
(* Batch properties: the journey list is a list of catalogue journeys.     *)
(***************************************************************************)
\* the list without its i-th journey
Without(js, i) == SubSeq(js, 1, i - 1) \o SubSeq(js, i + 1, Len(js))
Range(seq) == {seq[i] : i \in 1..Len(seq)}
\* how the run_model call of the loop's last pass ended
Ended(outcome) ==
    \/ Returned(model_name) /\ model_name \in ModelSet /\ outcome = Return(credits)
    \/ pc = "raised" /\ outcome = Raise(error)
HasRun == model_name \in ModelSet

(***************************************************************************)
(* C9  A journey that is not converted, or has no touchpoints, adds        *)
(* nothing to any model's ledger: the model run last ended as it ends on   *)
(* the list without that journey (the same ledger, no key added for the    *)
(* journey's channels).  Yet the report counts it in total_journeys, and   *)
(* every channel of its touchpoints is in channels_observed.               *)
(***************************************************************************)
C9_IneligibleJourneyAddsNothing ==
    \A i \in 1..Len(journeys) :
        ~Eligible(journeys[i])
        => /\ HasRun => Ended(run_model(model_name, Without(journeys, i), half_life))
           /\ pc = "done"
              => /\ results.summary.total_journeys = Len(journeys)
                 /\ ChannelsOf(Touchpoints(journeys[i]))
                        \subseteq Range(results.summary.channels_observed)

\* a report over an eligible journey and an unconverted one with touchpoints of B
\* and C: two journeys counted, C observed, and C in no ledger
C9_Witness ==
    /\ pc = "done" /\ model_arg = "none" /\ half_life = 4
    /\ Len(journeys) = 2
    /\ Eligible(journeys[1])
    /\ ~Converted(journeys[2]) /\ ChannelsOf(Touchpoints(journeys[2])) = {"B", "C"}
    /\ results.summary.total_journeys = 2
    /\ "C" \in Range(results.summary.channels_observed)
    /\ \A m \in ModelSet : "C" \notin DOMAIN results.models[m]

(***************************************************************************)
(* C10  Order independence: for every model and every permutation of the   *)
(* journey list, run_model returns the ledger it returned for the list as  *)
(* given (same keys, same credit per key), and raises for a permutation    *)
(* exactly when it raised for the list as given.                           *)
(***************************************************************************)
C10_JourneyOrderIrrelevant ==
    HasRun
    => \A p \in Orders(Len(journeys)) :
         LET permuted == run_model(model_name, Permuted(journeys, p), half_life)
         IN  /\ Returned(model_name) => permuted = Return(credits)
             /\ pc = "raised" => ~permuted.ok

\* position-based has run over two different eligible journeys that both credit
\* channel A and that are not in the order of the swapped list
C10_Witness ==
    /\ Returned("position-based")
    /\ Len(journeys) = 2 /\ journeys[1] # journeys[2]
    /\ Eligible(journeys[1]) /\ Eligible(journeys[2])
    /\ "revenue" \in DOMAIN journeys[1] /\ "revenue" \notin DOMAIN journeys[2]
    /\ "A" \in ChannelsOf(journeys[1].touchpoints) \cap ChannelsOf(journeys[2].touchpoints)
    /\ credits["A"] = RAdd(Num(24), Rat(1, 2))

(***************************************************************************)
(* C11  Partition and merge.  Whenever a model has returned its ledger for *)
(* the journey list, then for every split of the list into a front part J1 *)
(* and a rest J2 the model returns a ledger for J1 and for J2, and the     *)
(* ledger of the whole list is their key-wise sum: its keys are the keys   *)
(* of either part, a key missing from one part counting as 0 there.  The   *)
(* ledger of the empty journey list is the empty ledger.                   *)
(***************************************************************************)
\* the key-wise sum of two ledgers
Merged(a, b) == [c \in DOMAIN a \cup DOMAIN b |-> RAdd(Get(a, c), Get(b, c))]

C11_PartitionAndMerge ==
    (Returned(model_name) /\ model_name \in ModelSet)
    => /\ run_model(model_name, <<>>, half_life) = Return(EmptyLedger)
       /\ \A k \in 0..Len(journeys) :
            LET J1 == run_model(model_name, SubSeq(journeys, 1, k), half_life)
                J2 == run_model(model_name, SubSeq(journeys, k + 1, Len(journeys)), half_life)
            IN  /\ J1.ok /\ J2.ok
                /\ credits = Merged(J1.credits, J2.credits)

\* time-decay has run over two different eligible journeys: both credit A and B, only
\* the first credits C, and A holds the sum of its two partial credits
C11_Witness ==
    /\ Returned("time-decay") /\ half_life = 4
    /\ Len(journeys) = 2 /\ journeys[1] # journeys[2]
    /\ Eligible(journeys[1]) /\ Eligible(journeys[2])
    /\ LET J1 == run_model("time-decay", SubSeq(journeys, 1, 1), half_life).credits
           J2 == run_model("time-decay", SubSeq(journeys, 2, 2), half_life).credits
       IN  /\ DOMAIN J1 = {"A", "B", "C"} /\ DOMAIN J2 = {"A", "B"}
           /\ DOMAIN credits = {"A", "B", "C"}
           /\ credits["C"] = J1["C"]
           /\ credits["A"] = RAdd(J1["A"], J2["A"]) /\ credits["A"] # J1["A"]

(***************************************************************************)
(* C15  No partial result.  main emits a report only when every requested  *)
(* model has run and returned its ledger: when run_model raises for one of *)
(* the requested models, main ends without a report, also when models      *)
(* before it had returned theirs; a report holds a ledger for each         *)
(* requested model.                                                        *)
(***************************************************************************)
Requested == IF model_arg = "none" THEN ModelSet ELSE {model_arg}

C15_NoPartialReport ==
    /\ pc = "raised" => results = <<>>
    /\ results # <<>>
       => /\ pc = "done" /\ todo = <<>> /\ error = <<>>
          /\ DOMAIN results.models = Requested
          /\ \A m \in Requested : run_model(m, journeys, half_life).ok

\* all five models were requested with half-life 0: first-touch, last-touch and linear
\* have returned ledgers that hold credit, time-decay has raised, nothing is reported
C15_Witness ==
    /\ pc = "raised" /\ model_arg = "none" /\ model_name = "time-decay"
    /\ DOMAIN model_results = {"first-touch", "last-touch", "linear"}
    /\ \A m \in DOMAIN model_results : DOMAIN model_results[m] # {}
    /\ results = <<>>

(***************************************************************************)
(* C16  The multi-model merge is not lossy.  At every point of a run, of   *)
(* one model or of all five, the ledger recorded under a model's name is   *)
(* the ledger run_model returns for that model over the journey list,      *)
(* rounded to 2 decimals: what the run of that model alone records.  The   *)
(* report of a run of all five holds such a ledger under each of the five  *)
(* names; what a model before it credited is in no later model's ledger.   *)
(***************************************************************************)
\* the ledger as main records it
Recorded(ledger) == [ch \in DOMAIN ledger |-> Round2(ledger[ch])]

C16_MergeIsNotLossy ==
    /\ \A m \in DOMAIN model_results :
          LET alone == run_model(m, journeys, half_life)
          IN  alone.ok /\ model_results[m] = Recorded(alone.credits)
    /\ pc = "done"
       => /\ results.models = model_results
          /\ DOMAIN results.models = Requested

\* the report of all five models over two eligible journeys: five ledgers, those of
\* first-touch and last-touch with different keys
C16_Witness ==
    /\ pc = "done" /\ model_arg = "none" /\ half_life = 4
    /\ Len(journeys) = 2 /\ Eligible(journeys[1]) /\ Eligible(journeys[2])
    /\ DOMAIN results.models = ModelSet
    /\ DOMAIN results.models["first-touch"] # DOMAIN results.models["last-touch"]
    /\ DOMAIN results.models["last-touch"] # DOMAIN results.models["linear"]

(***************************************************************************)
(* C22  No model changes its input.  No step of a run, of one model or of  *)
(* all five, changes the journey list: the journeys, their fields and the  *)
(* order of every touchpoint array stay as they were loaded, so that each  *)
(* model of the loop is handed the list the first one was handed.          *)
(***************************************************************************)
C22_InputNotMutated == [][journeys' = journeys]_vars

\* all five models have run and reported over a list with an eligible journey whose
\* touchpoint array is not in timestamp order, and the array still is not
C22_Witness ==
    /\ pc = "done" /\ model_arg = "none"
    /\ \E i \in 1..Len(journeys) :
          /\ Eligible(journeys[i])
          /\ journeys[i].touchpoints # sorted(journeys[i].touchpoints)
    /\ \A m \in ModelSet : DOMAIN results.models[m] # {}

(***************************************************************************)
(* C23  The end-to-end example.  For the one converted journey with        *)
(* revenue 100 and the touchpoints A on day 0, B on day 5, C on day 10, in *)
(* whatever order the array gives them, main records, rounded to 2         *)
(* decimals: first-touch {A: 100}, last-touch {C: 100}, linear {A: 33.33,  *)
(* B: 33.33, C: 33.33}, position-based {A: 40, B: 20, C: 40}; and these    *)
(* are the ledgers of the report.                                          *)
(***************************************************************************)
IsExample ==
    /\ Len(journeys) = 1
    /\ journeys[1].converted /\ journeys[1].revenue = 100
    /\ {<<tp.channel, Instant(tp)>> : tp \in Range(journeys[1].touchpoints)}
          = {<<"A", 0>>, <<"B", 5>>, <<"C", 10>>}
    /\ Len(journeys[1].touchpoints) = 3
ExampleLedger(m) ==
    IF m = "first-touch" THEN [c \in {"A"} |-> Num(100)]
    ELSE IF m = "last-touch" THEN [c \in {"C"} |-> Num(100)]
    ELSE IF m = "linear" THEN [c \in {"A", "B", "C"} |-> Rat(3333, 100)]
    ELSE [c \in {"A", "B", "C"} |-> IF c = "B" THEN Num(20) ELSE Num(40)]

C23_EndToEndExample ==
    IsExample
    => /\ \A m \in DOMAIN model_results \ {"time-decay"} : model_results[m] = ExampleLedger(m)
       /\ pc = "done"
          => \A m \in Requested \ {"time-decay"} : results.models[m] = ExampleLedger(m)

\* the report of all five models over the example given as C, A, B
C23_Witness ==
    /\ IsExample /\ pc = "done" /\ model_arg = "none"
    /\ journeys[1].touchpoints[1].channel = "C" /\ journeys[1].touchpoints[2].channel = "A"
    /\ results.models["linear"]["A"] = Rat(3333, 100)
    /\ results.models["position-based"]["B"] = Num(20)

(***************************************************************************)
(* C27  Rounding happens once, in the report.  The ledger run_model        *)
(* returns holds, for every channel, the exact sum over all eligible       *)
(* journeys of the unrounded amounts the model gives that channel's        *)
(* touchpoints; main records round(total, 2) of each channel of that       *)
(* ledger, rounding the total of the whole list and nothing before it.     *)
(***************************************************************************)
\* the unrounded amounts model m gives the touchpoints of an eligible journey, and
\* the touchpoints in the order of the amounts
AmountsOf(m, journey) ==
    LET n == Len(journey.touchpoints)
        revenue == Revenue(journey)
    IN  IF m = "first-touch" THEN [i \in 1..n |-> IF i = 1 THEN revenue ELSE Zero]
        ELSE IF m = "last-touch" THEN [i \in 1..n |-> IF i = n THEN revenue ELSE Zero]
        ELSE IF m = "linear" THEN [i \in 1..n |-> RDiv(revenue, Num(n))]
        ELSE IF m = "position-based"
             THEN [i \in 1..n |->
                      IF n = 1 THEN revenue
                      ELSE IF n = 2 THEN RDiv(revenue, Num(2))
                      ELSE IF i \in {1, n} THEN RDiv(RMul(revenue, Num(2)), Num(5))
                      ELSE RDiv(revenue, Num(5 * (n - 2)))]
        ELSE LET weights == time_decay_weights(half_life, sorted(journey.touchpoints))
             IN  [i \in 1..n |-> RDiv(RMul(weights[i], revenue), RSumSeq(weights))]
TouchedIn(m, journey) ==
    IF m = "linear" THEN journey.touchpoints ELSE sorted(journey.touchpoints)

\* what model m gives channel ch over one eligible journey, and over a list
UnroundedOfJourney(m, journey, ch) ==
    LET amounts == AmountsOf(m, journey)
        tps == TouchedIn(m, journey)
    IN  RSumSeq([i \in 1..Len(tps) |-> IF tps[i].channel = ch THEN amounts[i] ELSE Zero])
UnroundedTotal(m, js, ch) ==
    RSumSeq([i \in 1..Len(js) |->
                IF Eligible(js[i]) THEN UnroundedOfJourney(m, js[i], ch) ELSE Zero])

C27_RoundedOnceAtReport ==
    (HasRun /\ pc \in {"run", "done"})
    => /\ \A ch \in Channels : Get(credits, ch) = UnroundedTotal(model_name, journeys, ch)
       /\ model_results[model_name] = Recorded(credits)
       /\ pc = "done" => results.models[model_name] = Recorded(credits)

\* time-decay over two journeys reported: a channel whose rounded total, 1.41 of
\* 24/17, is not the sum 1.42 of the journeys' rounded amounts
C27_Witness ==
    /\ pc = "done" /\ Returned("time-decay")
    /\ Len(journeys) = 2 /\ Eligible(journeys[1]) /\ Eligible(journeys[2])
    /\ \E ch \in DOMAIN credits :
          /\ credits[ch] = Rat(24, 17)
          /\ results.models["time-decay"][ch] = Rat(141, 100)
          /\ RAdd(Round2(UnroundedOfJourney("time-decay", journeys[1], ch)),
                  Round2(UnroundedOfJourney("time-decay", journeys[2], ch))) = Rat(142, 100)

(***************************************************************************)
(* C30  The summary and the ledgers reconcile.  Over a list in which every *)
(* converted journey has a touchpoint and a revenue field, the unrounded   *)
(* total of the ledger of every model that returns one is the unrounded    *)
(* sum of the converted journeys' revenue, which is what compute_summary   *)
(* rounds to total_revenue; and every channel of every reported ledger is  *)
(* in the summary's channels_observed.                                     *)
(***************************************************************************)
Reconcilable(js) ==
    \A i \in 1..Len(js) :
        Converted(js[i]) => Touchpoints(js[i]) # <<>> /\ "revenue" \in DOMAIN js[i]
\* sum(j.get("revenue", 0.0) for j in journeys if j.get("converted", False)), unrounded
SummedRevenue(js) ==
    RSumSeq([i \in 1..Len(js) |-> IF Converted(js[i]) THEN SummaryRevenue(js[i]) ELSE Zero])

C30_SummaryAndLedgersReconcile ==
    (Reconcilable(journeys) /\ HasRun /\ pc \in {"run", "done"})
    => /\ LedgerTotal(credits) = SummedRevenue(journeys)
       /\ DOMAIN credits \subseteq Range(compute_summary(journeys).channels_observed)
       /\ pc = "done"
          => /\ results.summary.total_revenue = Round2(LedgerTotal(credits))
             /\ \A m \in DOMAIN results.models :
                   DOMAIN results.models[m] \subseteq Range(results.summary.channels_observed)

\* the report of all five models over a journey of revenue 30 and an unconverted one
\* that has a revenue of 60: total_revenue 30, every ledger within the channels
\* observed, of which C is in no ledger
C30_Witness ==
    /\ pc = "done" /\ model_arg = "none" /\ half_life = 2
    /\ Reconcilable(journeys) /\ Len(journeys) = 2
    /\ Eligible(journeys[1]) /\ Len(journeys[1].touchpoints) = 3
    /\ ~Converted(journeys[2]) /\ "revenue" \in DOMAIN journeys[2]
    /\ results.summary.total_revenue = Num(30)
    /\ LedgerTotal(credits) = Num(30)
    /\ Range(results.summary.channels_observed) = {"A", "B", "C"}
    /\ \A m \in ModelSet : DOMAIN results.models[m] \subseteq {"A", "B"}

(***************************************************************************)
(* Properties of the functions called one by one.                          *)
(***************************************************************************)
Called(fn) == call # <<>> /\ call.fn = fn
\* the timestamps of the eligible journeys' touchpoints that are in none of the
\* three formats
BadTimestamps(js) ==
    UNION {{Touchpoints(js[i])[k].timestamp :
               k \in {n \in 1..Len(Touchpoints(js[i])) :
                          Touchpoints(js[i])[n].timestamp.fmt \notin FormatSet}} :
           i \in {n \in 1..Len(js) : Eligible(js[n])}}

(***************************************************************************)
(* C12  run_model called with a model identifier that is none of the five  *)
(* names of MODELS raises an error that carries the identifier and the     *)
(* five supported names, whatever the journey list and the half-life are:  *)
(* also for a list with an unparsable timestamp and for half-life 0, which *)
(* make a model that processes the list raise another error.               *)
(***************************************************************************)
C12_UnknownModelFailsFirst ==
    (Called("run_model") /\ call.model_name \notin ModelSet)
    => /\ pc = "raised"
       /\ call.ended = Raise([type |-> "ValueError", what |-> "Unknown model",
                              value |-> call.model_name, choose_from |-> MODELS])

\* run_model("time_decay", ...), the name written with an underscore, over a list with
\* an unparsable timestamp and with half-life 0: the error names "time_decay"
C12_Witness ==
    /\ Called("run_model") /\ call.model_name = "time_decay" /\ call.half_life = 0
    /\ BadTimestamps(journeys) # {}
    /\ pc = "raised"
    /\ call.ended.error.value = "time_decay"
    /\ ~run_model("time-decay", journeys, 4).ok

(***************************************************************************)
(* C13  time_decay_attribution called with a half-life that is zero or     *)
(* negative raises an error and returns no ledger.  The code does not hold *)
(* this: math.log(2) / half_life_days raises for 0 only, and a negative    *)
(* half-life gives a negative decay_rate, with which the call returns a    *)
(* ledger whose weights grow with the distance from the latest touchpoint. *)
(***************************************************************************)
C13_NonPositiveHalfLifeRejected ==
    (Called("time_decay_attribution") /\ call.half_life_days <= 0)
    => /\ pc = "raised"
       /\ ~call.ended.ok

(***************************************************************************)
(* C14 as claimed: when a touchpoint of an eligible journey has a          *)
(* timestamp in none of the three formats, run_model raises, for each of   *)
(* the five models, the parse error that carries that string.              *)
(***************************************************************************)
CannotParse(ts) == [type |-> "ValueError", what |-> "Cannot parse timestamp", value |-> ts]
RunOverBadTimestamp ==
    Called("run_model") /\ call.model_name \in ModelSet /\ BadTimestamps(journeys) # {}

C17_SafeDivide ==
    Called("safe_divide")
    => LET default == IF "default" \in DOMAIN call.args THEN call.args.default ELSE Zero
       IN  /\ pc = "returned" /\ call.ended.ok
           /\ call.args.denominator = Zero => call.ended.value = default
           /\ call.args.denominator # Zero
              => RMul(call.ended.value, call.args.denominator) = call.args.numerator

\* safe_divide(3.5, 0, -1.0) has returned -1.0
C17_Witness ==
    /\ Called("safe_divide")
    /\ call.args = [numerator |-> Rat(7, 2), denominator |-> Zero, default |-> Num(-1)]
    /\ call.ended.value = Num(-1)

(***************************************************************************)
(* C18  compute_summary returns, for every journey list: total_journeys,   *)
(* the length of the list; converted_journeys, the number of journeys      *)
(* whose converted flag is present and true, which is at most              *)
(* total_journeys; conversion_rate, 100 * converted_journeys /             *)
(* total_journeys rounded to 2 decimals, and 0.0 for the empty list.       *)
(***************************************************************************)
FlaggedConverted(js) ==
    {i \in 1..Len(js) : "converted" \in DOMAIN js[i] /\ js[i].converted = TRUE}

C18_SummaryCounts ==
    Called("compute_summary")
    => LET summary == call.ended.value
           converted == Cardinality(FlaggedConverted(journeys))
       IN  /\ pc = "returned" /\ call.ended.ok
           /\ summary.total_journeys = Len(journeys)
           /\ summary.converted_journeys = converted
           /\ summary.converted_journeys <= summary.total_journeys
           /\ summary.conversion_rate =
                  IF Len(journeys) = 0 THEN Zero
                  ELSE Round2(Rat(100 * converted, Len(journeys)))

\* three journeys, one of them without the flag and one with the flag false: 1 of 3
\* converted, reported as 33.33
C18_Witness ==
    /\ Called("compute_summary")
    /\ Len(journeys) = 3
    /\ \E i \in 1..3 : "converted" \notin DOMAIN journeys[i]
    /\ \E i \in 1..3 : "converted" \in DOMAIN journeys[i] /\ ~journeys[i].converted
    /\ call.ended.value.converted_journeys = 1
    /\ call.ended.value.conversion_rate = Rat(3333, 100)

(***************************************************************************)
(* C19  compute_summary's total_revenue is the revenue summed over the     *)
(* converted journeys, rounded to 2 decimals, a converted journey without  *)
(* a revenue field counting 1.0, the amount journey.get("revenue", 1.0)    *)
(* gives the attribution models.  The code does not hold this: line 193    *)
(* reads j.get("revenue", 0.0), and such a journey counts 0.0.             *)
(***************************************************************************)
C19_SummaryRevenueDefaultsToOne ==
    Called("compute_summary")
    => call.ended.value.total_revenue
         = Round2(RSumSeq([i \in 1..Len(journeys) |->
                              IF i \in FlaggedConverted(journeys)
                              THEN Revenue(journeys[i]) ELSE Zero]))

(***************************************************************************)
(* C20  compute_summary's channels_observed lists exactly the channels of  *)
(* the touchpoints of the journeys of the list, of converted journeys and  *)
(* of the others alike, each channel once, in ascending order.             *)
(***************************************************************************)
ChannelsOfAll(js) ==
    {c \in Channels :
        \E i \in 1..Len(js) :
            /\ "touchpoints" \in DOMAIN js[i]
            /\ \E k \in 1..Len(js[i].touchpoints) : js[i].touchpoints[k].channel = c}

C20_ChannelsObserved ==
    Called("compute_summary")
    => LET observed == call.ended.value.channels_observed
       IN  /\ Range(observed) = ChannelsOfAll(journeys)
           /\ \A i, k \in 1..Len(observed) : i < k => Rank(observed[i]) < Rank(observed[k])

\* the list starts with an unconverted journey, the only one with channel C, and goes
\* on with a converted journey of B and A: A, B, C are listed, in this order
C20_Witness ==
    /\ Called("compute_summary")
    /\ Len(journeys) = 2
    /\ ~Converted(journeys[1]) /\ "C" \in ChannelsOf(Touchpoints(journeys[1]))
    /\ Converted(journeys[2]) /\ ChannelsOf(Touchpoints(journeys[2])) = {"A", "B"}
    /\ Touchpoints(journeys[2])[1].channel = "B"
    /\ call.ended.value.channels_observed = <<"A", "B", "C">>

(***************************************************************************)
(* C21  Only time-decay reads the half-life.  What run_model ended with    *)
(* for first-touch, last-touch, linear or position-based and one           *)
(* half-life, a returned ledger or a raised error, it ends with for every  *)
(* other half-life over the same journey list, zero and negative ones      *)
(* included.                                                               *)
(***************************************************************************)
C21_HalfLifeIgnoredElsewhere ==
    (Called("run_model") /\ call.model_name \in ModelSet \ {"time-decay"})
    => \A h \in HalfLives : run_model(call.model_name, journeys, h) = call.ended

\* linear has returned a ledger with credit for half-life 0, with which time-decay
\* raises, and the half-lives 2 and 4 give time-decay different ledgers
C21_Witness ==
    /\ Called("run_model") /\ call.model_name = "linear" /\ call.half_life = 0
    /\ call.ended.ok /\ DOMAIN call.ended.credits # {}
    /\ ~run_model("time-decay", journeys, 0).ok
    /\ run_model("time-decay", journeys, 2).ok
    /\ run_model("time-decay", journeys, 2) # run_model("time-decay", journeys, 4)

(***************************************************************************)
(* C26  The zero-weight branch of time_decay_attribution is never taken.   *)
(* For a half-life other than 0 and every eligible journey whose           *)
(* timestamps parse, every weight is above 0 and the latest touchpoint's   *)
(* weight is 1, so that the weight sum is at least 1 and not 0; and the    *)
(* ledger a call returns totals the revenue of all eligible journeys, none *)
(* of them left out.                                                       *)
(***************************************************************************)
C26_WeightSumNeverZero ==
    (Called("time_decay_attribution") /\ call.half_life_days # 0)
    => /\ \A i \in 1..Len(journeys) :
            (Eligible(journeys[i]) /\ BadTimestamps(<<journeys[i]>>) = {})
            => LET sorted_tp == sorted(journeys[i].touchpoints)
                   weights == time_decay_weights(call.half_life_days, sorted_tp)
               IN  /\ \A k \in 1..Len(weights) : RLess(Zero, weights[k])
                   /\ weights[Len(weights)] = One
                   /\ RLeq(One, RSumSeq(weights))
                   /\ time_decay_journey(call.half_life_days, EmptyLedger, journeys[i])
                        # Return(EmptyLedger)
       /\ call.ended.ok => LedgerTotal(call.ended.credits) = EligibleRevenue(journeys)

\* time-decay with half-life 1 over a journey whose touchpoints are 12 days apart,
\* the earliest weighing 1/4096, and a journey of one touchpoint
C26_Witness ==
    /\ Called("time_decay_attribution") /\ call.half_life_days = 1
    /\ call.ended.ok
    /\ Len(journeys) = 2
    /\ Eligible(journeys[1]) /\ Len(journeys[1].touchpoints) = 4
    /\ time_decay_weights(1, sorted(journeys[1].touchpoints))[1] = Rat(1, 4096)
    /\ Eligible(journeys[2]) /\ Len(journeys[2].touchpoints) = 1
    /\ LedgerTotal(call.ended.credits) = Num(160)

(***************************************************************************)
(* C28  A journey is tested for eligibility before a timestamp of it is    *)
(* parsed.  When the only timestamps of a list that are in none of the     *)
(* three formats belong to journeys that are not converted (a journey      *)
(* without touchpoints has none), run_model raises no parse error for any  *)
(* of the five models: it ends as it ends for the list of the eligible     *)
(* journeys alone, which is with a ledger, unless the model is time-decay  *)
(* and the half-life 0.                                                    *)
(***************************************************************************)
\* the timestamps in none of the three formats that journeys not eligible carry
SkippedBadTimestamps(js) ==
    UNION {{Touchpoints(js[i])[k].timestamp :
               k \in {n \in 1..Len(Touchpoints(js[i])) :
                          ~Parses(Touchpoints(js[i])[n].timestamp)}} :
           i \in {n \in 1..Len(js) : ~Eligible(js[n])}}
RECURSIVE OnlyEligible(_)
OnlyEligible(js) ==
    IF js = <<>> THEN <<>>
    ELSE IF Eligible(Head(js)) THEN <<Head(js)>> \o OnlyEligible(Tail(js))
    ELSE OnlyEligible(Tail(js))

C28_IneligibleNeverParsed ==
    (Called("run_model") /\ call.model_name \in ModelSet /\ BadTimestamps(journeys) = {})
    => /\ call.ended.ok \/ (call.model_name = "time-decay" /\ call.half_life = 0)
       /\ ~call.ended.ok => call.ended.error.type = "ZeroDivisionError"
       /\ call.ended = run_model(call.model_name, OnlyEligible(journeys), call.half_life)

\* first-touch over an unconverted journey whose timestamp is written "31/12/2024",
\* followed by an eligible journey: the call returns the ledger of the second
C28_Witness ==
    /\ Called("run_model") /\ call.model_name = "first-touch"
    /\ Len(journeys) = 2
    /\ ~Converted(journeys[1]) /\ SkippedBadTimestamps(<<journeys[1]>>) = {BadStamp}
    /\ Eligible(journeys[2]) /\ Len(journeys[2].touchpoints) = 4
    /\ call.ended = Return([c \in {"A"} |-> Num(60)])

(***************************************************************************)
(* C29 as claimed: over a list in which every eligible journey has exactly *)
(* one touchpoint, each of the five models (time-decay with a positive     *)
(* half-life) returns the same ledger: every channel with the revenue of   *)
(* the eligible journeys whose only touchpoint it is.                      *)
(***************************************************************************)
AllSingle(js) == \A i \in 1..Len(js) : Eligible(js[i]) => Len(js[i].touchpoints) = 1
\* the full revenue of every eligible journey on its only channel
SingleLedger(js) ==
    LET on(ch) == {i \in 1..Len(js) : Eligible(js[i]) /\ js[i].touchpoints[1].channel = ch}
    IN  [ch \in {c \in Channels : on(c) # {}} |->
            RSumSeq([i \in 1..Len(js) |-> IF i \in on(ch) THEN Revenue(js[i]) ELSE Zero])]
RunOverSingles ==
    /\ Called("run_model") /\ call.model_name \in ModelSet
    /\ call.model_name = "time-decay" => call.half_life > 0
    /\ AllSingle(journeys)

C29_SingleTouchModelsAgree ==
    RunOverSingles => call.ended = Return(SingleLedger(journeys))

(***************************************************************************)
(* C29 amended: over a list in which every eligible journey has exactly    *)
(* one touchpoint, and its timestamp is in one of the three formats, each  *)
(* of the five models (time-decay with a positive half-life) returns the   *)
(* same ledger: every channel with the revenue of the eligible journeys    *)
(* whose only touchpoint it is.  When one of these timestamps is in none   *)
(* of the formats, linear alone returns that ledger and the four models    *)
(* that sort raise the parse error.                                        *)
(***************************************************************************)
C29_SingleTouchModelsAgreeWhenParsed ==
    RunOverSingles
    => IF BadTimestamps(journeys) = {} \/ call.model_name = "linear"
       THEN call.ended = Return(SingleLedger(journeys))
       ELSE /\ ~call.ended.ok
            /\ \E ts \in BadTimestamps(journeys) : call.ended.error = CannotParse(ts)

\* position-based over two eligible journeys of one touchpoint each, both of C with
\* revenue 100: the ledger holds 200 for C
C29_Witness ==
    /\ RunOverSingles /\ call.model_name = "position-based"
    /\ BadTimestamps(journeys) = {}
    /\ Len(journeys) = 2
    /\ Eligible(journeys[1]) /\ Eligible(journeys[2])
    /\ call.ended = Return([c \in {"C"} |-> Num(200)])

====
